---- MODULE Spec2Model ----
(***************************************************************************)
(* compmusic.extractors.ExtractorModule: the base class of an extractor    *)
(* module, its settings, its document context and its key/value cache      *)
(* (a redis client when one is configured, else an instance-owned dict).   *)
(*                                                                         *)
(* Python strings are modelled as sequences of characters, so that the     *)
(* "%s-%s-%s" formatting of the cache key is a real concatenation.         *)
(***************************************************************************)
EXTENDS Integers, Sequences, FiniteSets, TLC

\* ------------------------------------------------------------- bounds
\* longest slug / version / lookup key, in characters
MaxLen == 1
\* largest timeout (seconds) a caller passes to set_key
MaxTimeout == 1

\* ------------------------------------------------------------- values
\* Python's None
None == "None"
\* the value of an attribute that was never assigned
Unset == "unset"

\* the alphabet of slugs, versions and lookup keys; "-" is the separator
\* the key format uses
Char == {"a", "-"}

RECURSIVE StrsOfLen(_)
StrsOfLen(n) ==
  IF n = 0 THEN {<<>>}
  ELSE {Append(s, c) : s \in StrsOfLen(n - 1), c \in Char}

Strings == UNION {StrsOfLen(n) : n \in 0..MaxLen}

\* the module objects the program creates
Instances == {"m1", "m2"}
\* __slug__ and __version__ of the subclasses the program defines
Slugs == {<<"s">>}
Versions == {<<"1">>, <<"2">>}
\* lookup keys the callers use
LookupKeys == {<<"k">>, <<"k", "-">>}
\* a redis host, and the values of the other option
Hosts == {"h1"}
OptVals == {"a", "b"}
\* **kwargs: a dict from some option names to values
Kwargs ==
  {<<>>} \cup {[o \in {"redis_host"} |-> h] : h \in Hosts}
         \cup {[o \in {"opt"} |-> v] : v \in OptVals}
         \cup {[o \in {"redis_host", "opt"} |->
                  IF o = "opt" THEN v ELSE h] : h \in Hosts, v \in OptVals}
\* the kwargs that only choose the cache backend
BackendKwargs == {kw \in Kwargs : DOMAIN kw \subseteq {"redis_host"}}
\* values put in the cache
CacheVals == {"x", "y"}
\* timeout argument: <<>> is the default None, <<t>> a supplied number
Timeouts == {<<>>} \cup {<<t>> : t \in 0..MaxTimeout}
\* identifiers the orchestrator passes to process_document
CollectionIds == {"c1", "c2"}
DocIds == {"d1", "d2"}
SourceFileIds == {"f1", "f2"}
WorkIds == {"w1", "w2"}
Files == {"a.mp3"}
\* what an overridden run returns
Outputs == {"out"}

\* ------------------------------------------------------------- state
VARIABLES
  redis_imported,  \* 'redis' in globals(): did `import redis` succeed
  self,            \* Instances -> the attributes of each module object
  server,          \* host -> the content of the redis server at that host
  written,         \* history: Instances -> lookup key -> last value set
  docs,            \* history: Instances -> <<args of the last process_document>>
  last             \* history: the last call, its arguments and its result

vars == <<redis_imported, self, server, written, docs, last>>

\* a dict with no entries ({} / Settings())
EmptyDict == <<>>

\* dict.get(key): the value, or None
dict_get(d, k) == IF k \in DOMAIN d THEN d[k] ELSE None

\* d[k] = v
dict_set(d, k, v) == [x \in DOMAIN d \cup {k} |-> IF x = k THEN v ELSE d[x]]

\* an object that was not constructed yet
NotCreated ==
  [created |-> FALSE, slug |-> <<>>, version |-> <<>>, run_overridden |-> FALSE,
   settings |-> EmptyDict, redis |-> <<>>, cache |-> EmptyDict,
   document_id |-> Unset, musicbrainz_id |-> Unset, collection_id |-> Unset,
   logger |-> [documentid |-> Unset, sourcefileid |-> Unset],
   setup_calls |-> 0]

\* ------------------------------------------------------------- helpers
\* a buggy get_key: the version is left out of the key
get_key_key_no_version(slug, version, k) == slug \o <<"-">> \o k

\* get_key: key = "%s-%s-%s" % (self.__slug__, self.__version__, k)
get_key_key(slug, version, k) == slug \o <<"-">> \o version \o <<"-">> \o k

\* a buggy set_key: the lookup key is left out of the key
set_key_key_no_k(slug, version, k) == slug \o <<"-">> \o version

\* set_key: key = "%s-%s-%s" % (self.__slug__, self.__version__, k)
set_key_key(slug, version, k) == slug \o <<"-">> \o version \o <<"-">> \o k

\* a buggy add_settings: an option that is already set keeps its value
add_settings_keep(settings, kwargs) ==
  [o \in DOMAIN settings \cup DOMAIN kwargs |->
     IF o \in DOMAIN settings THEN settings[o] ELSE kwargs[o]]

\* a buggy add_settings: the settings are replaced by the options given
add_settings_replace(settings, kwargs) == kwargs

\* for k, v in kwargs.items(): self.settings[k] = v
add_settings(settings, kwargs) ==
  [o \in DOMAIN settings \cup DOMAIN kwargs |->
     IF o \in DOMAIN kwargs THEN kwargs[o] ELSE settings[o]]

\* a buggy backend choice: the failed import is not looked at
use_redis_unguarded(settings, imported) == "redis_host" \in DOMAIN settings

\* "redis_host" in self.settings and 'redis' in globals()
use_redis(settings, imported) == "redis_host" \in DOMAIN settings /\ imported

\* a buggy test: a timeout of 0 counts as a timeout
truthy_not_none(timeout) == timeout # <<>>

\* `if timeout:` (None and 0 are false)
truthy(timeout) == timeout # <<>> /\ timeout[1] # 0

\* `not self.redis`: self.redis is None (<<>>) or a client object (<<host>>)
no_redis(obj) == obj.redis = <<>>

\* a buggy set_key that stores silently
set_key_warns_never(obj) == FALSE

\* warn("Redis not configured, ...") in get_key and in set_key
get_key_warns(obj) == no_redis(obj)
set_key_warns(obj) == no_redis(obj)

\* redis.get(key) / redis.set(key, val) / redis.setex(key, timeout, val)
redis_get(store, ky) == IF ky \in DOMAIN store THEN store[ky].val ELSE None
redis_set(store, ky, val) == dict_set(store, ky, [val |-> val, ttl |-> <<>>])
redis_setex(store, ky, timeout, val) ==
  dict_set(store, ky, [val |-> val, ttl |-> timeout])

\* the setup hook: `pass`, or an override that registers setup_opts with
\* self.add_settings(...)
setup(obj, setup_opts) ==
  [obj EXCEPT !.settings = add_settings(@, setup_opts),
              !.setup_calls = @ + 1]

\* a buggy process_document: the source file id is not given to the logger
set_context_no_sourcefile(obj, collectionid, docid, sourcefileid, musicbrainzid) ==
  [obj EXCEPT !.document_id = docid,
              !.logger = [@ EXCEPT !.documentid = docid],
              !.musicbrainz_id = musicbrainzid,
              !.collection_id = collectionid]

\* a buggy process_document: setup is run again for each document
set_context_setup_again(obj, collectionid, docid, sourcefileid, musicbrainzid) ==
  [obj EXCEPT !.document_id = docid,
              !.logger = [documentid |-> docid, sourcefileid |-> sourcefileid],
              !.musicbrainz_id = musicbrainzid,
              !.collection_id = collectionid,
              !.setup_calls = @ + 1]

\* the assignments of process_document before it calls run
set_context(obj, collectionid, docid, sourcefileid, musicbrainzid) ==
  [obj EXCEPT !.document_id = docid,
              !.logger = [documentid |-> docid, sourcefileid |-> sourcefileid],
              !.musicbrainz_id = musicbrainzid,
              !.collection_id = collectionid]

\* what run(fname) may return: None for the base class's `pass`
run(obj, fname) == IF obj.run_overridden THEN Outputs ELSE {None}

\* ------------------------------------------------------------- actions
Init ==
  /\ redis_imported \in BOOLEAN
  /\ self = [i \in Instances |-> NotCreated]
  /\ server = [h \in Hosts |-> EmptyDict]
  /\ written = [i \in Instances |-> EmptyDict]
  /\ docs = [i \in Instances |-> <<>>]
  /\ last = [op |-> "import"]

\* ExtractorModule.__init__(**kwargs) of a subclass with the given __slug__,
\* __version__, whose setup registers setup_opts (none: setup is `pass`)
\* and which overrides run or not. Line 72 raises NameError when it is
\* reached although `import redis` failed: no object is created then.
ExtractorModule_init(i, slug, version, run_overridden, setup_opts, kwargs) ==
  /\ ~self[i].created
  /\ LET o1 == [NotCreated EXCEPT !.slug = slug, !.version = version,
                                  !.run_overridden = run_overridden,
                                  !.settings = add_settings(EmptyDict, kwargs)]
         o2 == setup(o1, setup_opts)
         connect == use_redis(o2.settings, redis_imported)
         raised == connect /\ ~redis_imported
         o3 == [o2 EXCEPT !.redis = IF connect
                                    THEN <<o2.settings["redis_host"]>>
                                    ELSE <<>>,
                          !.cache = EmptyDict,
                          !.created = TRUE]
     IN /\ self' = IF raised THEN self ELSE [self EXCEPT ![i] = o3]
        /\ last' = [op |-> "__init__", i |-> i, kwargs |-> kwargs,
                    setup_saw |-> o1.settings, setup_opts |-> setup_opts,
                    setup_calls |-> o2.setup_calls, raised |-> raised]
  /\ UNCHANGED <<redis_imported, server, written, docs>>

get_key(i, k) ==
  /\ self[i].created
  /\ LET ky == get_key_key(self[i].slug, self[i].version, k)
         ret == IF no_redis(self[i]) THEN dict_get(self[i].cache, ky)
                ELSE redis_get(server[self[i].redis[1]], ky)
     IN last' = [op |-> "get_key", i |-> i, k |-> k, key |-> ky,
                 warned |-> get_key_warns(self[i]), ret |-> ret]
  /\ UNCHANGED <<redis_imported, self, server, written, docs>>

set_key(i, k, val, timeout) ==
  /\ self[i].created
  /\ LET ky == set_key_key(self[i].slug, self[i].version, k)
     IN /\ IF no_redis(self[i])
           THEN /\ self' = [self EXCEPT ![i].cache = dict_set(@, ky, val)]
                /\ UNCHANGED server
           ELSE /\ server' = [server EXCEPT ![self[i].redis[1]] =
                       IF truthy(timeout)
                       THEN redis_setex(@, ky, timeout, val)
                       ELSE redis_set(@, ky, val)]
                /\ UNCHANGED self
        /\ last' = [op |-> "set_key", i |-> i, k |-> k, key |-> ky,
                    val |-> val, timeout |-> timeout,
                    warned |-> set_key_warns(self[i])]
  /\ written' = [written EXCEPT ![i] = dict_set(@, k, val)]
  /\ UNCHANGED <<redis_imported, docs>>

process_document(i, collectionid, docid, sourcefileid, musicbrainzid, fname) ==
  /\ self[i].created
  /\ LET obj == set_context(self[i], collectionid, docid, sourcefileid,
                            musicbrainzid)
     IN /\ self' = [self EXCEPT ![i] = obj]
        /\ \E r \in run(obj, fname) :
             last' = [op |-> "process_document", i |-> i,
                      run_calls |-> <<[fname |-> fname, saw |-> obj,
                                       ret |-> r]>>,
                      ret |-> r]
  /\ docs' = [docs EXCEPT ![i] =
                <<[collectionid |-> collectionid, docid |-> docid,
                   sourcefileid |-> sourcefileid,
                   musicbrainzid |-> musicbrainzid, fname |-> fname]>>]
  /\ UNCHANGED <<redis_imported, server, written>>

add_settings_call(i, kwargs) ==
  /\ self[i].created
  /\ self' = [self EXCEPT ![i].settings = add_settings(@, kwargs)]
  /\ last' = [op |-> "add_settings", i |-> i, kwargs |-> kwargs]
  /\ UNCHANGED <<redis_imported, server, written, docs>>

\* the two key derivations applied to arguments drawn by InitKey
derive_keys ==
  /\ last.op = "args"
  /\ last' = [op |-> "keys", slug |-> last.slug, version |-> last.version,
              other_version |-> last.other_version, k |-> last.k,
              get1 |-> get_key_key(last.slug, last.version, last.k),
              set1 |-> set_key_key(last.slug, last.version, last.k),
              get2 |-> get_key_key(last.slug, last.other_version, last.k),
              set2 |-> set_key_key(last.slug, last.other_version, last.k)]
  /\ UNCHANGED <<redis_imported, self, server, written, docs>>

\* every operation on the objects in I, with the given class attributes,
\* setup behaviours, constructor options and lookup keys
AnyCall(I, Ss, Vs, ROs, SOs, KWs, Ks, Ts) ==
  \E i \in I :
    \/ \E slug \in Ss, version \in Vs, ro \in ROs, so \in SOs, kw \in KWs :
         ExtractorModule_init(i, slug, version, ro, so, kw)
    \/ \E k \in Ks : get_key(i, k)
    \/ \E k \in Ks, v \in CacheVals, t \in Ts : set_key(i, k, v, t)

Lifecycle(I) ==
  \E i \in I :
    \/ \E c \in CollectionIds, d \in DocIds, s \in SourceFileIds,
          m \in WorkIds, f \in Files :
         process_document(i, c, d, s, m, f)
    \/ \E kw \in Kwargs : add_settings_call(i, kw)

\* one module object through its whole life
Next ==
  \/ AnyCall({"m1"}, Slugs, Versions, BOOLEAN, Kwargs, Kwargs, LookupKeys,
             Timeouts)
  \/ Lifecycle({"m1"})

Spec == Init /\ [][Next]_vars

\* two module objects of base-class behaviour using their caches
NextCache ==
  AnyCall(Instances, Slugs, Versions, {FALSE}, {<<>>}, BackendKwargs,
          LookupKeys, {<<>>, <<MaxTimeout>>})

SpecCache == Init /\ [][NextCache]_vars

\* two module objects on one redis server, with slugs, versions and lookup
\* keys over all strings up to MaxLen
NextShared ==
  AnyCall(Instances, Slugs, Strings, {FALSE}, {<<>>},
          {kw \in BackendKwargs : kw # <<>>}, Strings, {<<>>})

SpecShared == Init /\ [][NextShared]_vars

\* the key derivation alone, on a slug, two versions and a lookup key over
\* all strings up to MaxLen
InitKey ==
  /\ redis_imported \in BOOLEAN
  /\ self = [i \in Instances |-> NotCreated]
  /\ server = [h \in Hosts |-> EmptyDict]
  /\ written = [i \in Instances |-> EmptyDict]
  /\ docs = [i \in Instances |-> <<>>]
  /\ \E slug \in Strings, version \in Strings, other \in Strings,
        k \in Strings :
       last = [op |-> "args", slug |-> slug, version |-> version,
               other_version |-> other, k |-> k]

SpecKey == InitKey /\ [][derive_keys]_vars

\* ------------------------------------------------------------- claims
\* the derived key written out: "<slug>-<version>-<key>"
Formatted(slug, version, k) == slug \o <<"-">> \o version \o <<"-">> \o k

\* the document context an object holds
Context(obj) ==
  [collectionid |-> obj.collection_id, docid |-> obj.document_id,
   musicbrainzid |-> obj.musicbrainz_id, logger |-> obj.logger]

\* C1: on an object without a redis client, get_key(k) returns the value of
\* the object's own most recent set_key(k, v), and None when the object never
\* set k, whatever was set under other keys or on other objects.
C1_LocalGetReturnsOwnLastSet ==
  (last.op = "get_key" /\ self[last.i].redis = <<>>)
    => last.ret = dict_get(written[last.i], last.k)

\* C1 witness: a local get_key returned "x" although another key of the same
\* object, and the same key of a local object of the same slug and version,
\* were last set to "y".
C1_Witness ==
  /\ last.op = "get_key"
  /\ self[last.i].redis = <<>>
  /\ last.ret = "x"
  /\ \E k2 \in DOMAIN written[last.i] :
       k2 # last.k /\ written[last.i][k2] = "y"
  /\ \E j \in Instances \ {last.i} :
       /\ self[j].created /\ self[j].redis = <<>>
       /\ self[j].slug = self[last.i].slug
       /\ self[j].version = self[last.i].version
       /\ dict_get(written[j], last.k) = "y"

\* C2: get_key and set_key derive the same cache key "<slug>-<version>-<key>",
\* and for one slug and one lookup key two different versions derive
\* different cache keys.
C2_KeyFormatAndVersion ==
  last.op = "keys" =>
    /\ last.get1 = Formatted(last.slug, last.version, last.k)
    /\ last.set1 = last.get1
    /\ last.get2 = Formatted(last.slug, last.other_version, last.k)
    /\ last.set2 = last.get2
    /\ last.version # last.other_version =>
         /\ last.get1 # last.get2 /\ last.get1 # last.set2
         /\ last.set1 # last.get2 /\ last.set1 # last.set2

\* C2 witness: keys were derived for two different versions, one of which
\* contains the separator.
C2_Witness ==
  /\ last.op = "keys"
  /\ last.version # last.other_version
  /\ \E n \in DOMAIN last.version : last.version[n] = "-"
  /\ last.get1 # last.get2

\* C3: on a redis server shared by objects of one slug and different
\* versions, get_key returns only what the object itself stored: its own most
\* recent value for the lookup key, or None; never a value another version
\* stored, whatever the lookup keys.
C3_VersionIsolation ==
  ( /\ last.op = "get_key"
    /\ self[last.i].redis # <<>>
    /\ \A j \in Instances \ {last.i} :
         self[j].created =>
           /\ self[j].slug = self[last.i].slug
           /\ self[j].version # self[last.i].version )
    => last.ret = dict_get(written[last.i], last.k)

\* C4: process_document calls run exactly once, with fname, after the
\* document id and source file id were given to the logger and the document,
\* work and collection ids stored on the object; it returns what run returned
\* (None for the base class's run); and at any time an object's context is
\* that of its most recent process_document call.
C4_ProcessDocument ==
  /\ last.op = "process_document" =>
       LET a == docs[last.i][1]
           c == last.run_calls[1]
       IN /\ Len(last.run_calls) = 1
          /\ c.fname = a.fname
          /\ c.saw.document_id = a.docid
          /\ c.saw.logger = [documentid |-> a.docid,
                             sourcefileid |-> a.sourcefileid]
          /\ c.saw.musicbrainz_id = a.musicbrainzid
          /\ c.saw.collection_id = a.collectionid
          /\ last.ret = c.ret
          /\ ~self[last.i].run_overridden => last.ret = None
  /\ \A i \in Instances :
       IF docs[i] = <<>>
       THEN Context(self[i]) = Context(NotCreated)
       ELSE Context(self[i]) =
              [collectionid |-> docs[i][1].collectionid,
               docid |-> docs[i][1].docid,
               musicbrainzid |-> docs[i][1].musicbrainzid,
               logger |-> [documentid |-> docs[i][1].docid,
                           sourcefileid |-> docs[i][1].sourcefileid]]

\* C4 witness: an overridden run returned its output for document "d2" of
\* source file "f2".
C4_Witness ==
  /\ last.op = "process_document"
  /\ last.ret = "out"
  /\ docs[last.i][1].docid = "d2"
  /\ self[last.i].logger.sourcefileid = "f2"
  /\ self[last.i].collection_id = "c2"

\* C5: add_settings sets each option given to the value given, keeps every
\* other option as it was, and changes nothing else: not the object's cache,
\* redis client or document context, no other object, not the server.
C5_AddSettingsFrame ==
  [][last'.op = "add_settings" =>
       LET i == last'.i
           kw == last'.kwargs
       IN /\ DOMAIN self'[i].settings = DOMAIN self[i].settings \cup DOMAIN kw
          /\ \A o \in DOMAIN kw : self'[i].settings[o] = kw[o]
          /\ \A o \in DOMAIN self[i].settings \ DOMAIN kw :
               self'[i].settings[o] = self[i].settings[o]
          /\ [self'[i] EXCEPT !.settings = self[i].settings] = self[i]
          /\ \A j \in Instances \ {i} : self'[j] = self[j]
          /\ server' = server
          /\ redis_imported' = redis_imported]_vars

\* C5 witness: add_settings(opt=...) on an object that has a redis_host
\* option, a cache entry and a document context.
C5_Witness ==
  /\ last.op = "add_settings"
  /\ DOMAIN last.kwargs = {"opt"}
  /\ DOMAIN self[last.i].settings = {"opt", "redis_host"}
  /\ self[last.i].cache # EmptyDict
  /\ docs[last.i] # <<>>

\* C6: construction never raises; after it the object has a redis client
\* exactly when its settings (constructor options and what setup added)
\* contain redis_host and the redis library was imported, and its local cache
\* is empty.
C6_BackendChoice ==
  last.op = "__init__" =>
    /\ ~last.raised
    /\ self[last.i].created
    /\ self[last.i].redis # <<>> <=>
         ("redis_host" \in DOMAIN self[last.i].settings /\ redis_imported)
    /\ self[last.i].redis # <<>> =>
         self[last.i].redis = <<self[last.i].settings["redis_host"]>>
    /\ self[last.i].cache = EmptyDict

\* C6 witness: redis_host was registered by setup only and the library is
\* missing: the object was built and has no client.
C6_Witness ==
  /\ last.op = "__init__"
  /\ "redis_host" \notin DOMAIN last.kwargs
  /\ "redis_host" \in DOMAIN self[last.i].settings
  /\ ~redis_imported
  /\ self[last.i].created
  /\ self[last.i].redis = <<>>

\* C7: get_key and set_key warn exactly when the object has no redis client,
\* and then still do their work: set_key has stored the value in the local
\* cache, get_key has returned the local cache's entry.
C7_WarnsIffLocal ==
  /\ last.op \in {"get_key", "set_key"} =>
       (last.warned <=> self[last.i].redis = <<>>)
  /\ (last.op = "set_key" /\ self[last.i].redis = <<>>) =>
       dict_get(self[last.i].cache, last.key) = last.val
  /\ (last.op = "get_key" /\ self[last.i].redis = <<>>) =>
       last.ret = dict_get(self[last.i].cache, last.key)

\* C7 witness: a set_key without redis warned and stored its value.
C7_Witness ==
  /\ last.op = "set_key"
  /\ self[last.i].redis = <<>>
  /\ last.warned
  /\ dict_get(self[last.i].cache, last.key) = last.val

\* C8: setup has run exactly once on every constructed object and never on
\* another: once when __init__ called it, and still once when run is called.
C8_SetupOnce ==
  /\ \A i \in Instances :
       self[i].setup_calls = IF self[i].created THEN 1 ELSE 0
  /\ last.op = "__init__" => last.setup_calls = 1
  /\ last.op = "process_document" => last.run_calls[1].saw.setup_calls = 1

\* C8 witness: a document was processed by an object that had used its cache.
C8_Witness ==
  /\ last.op = "process_document"
  /\ written[last.i] # EmptyDict
  /\ self[last.i].setup_calls = 1

\* C9 as claimed: with a redis client, every supplied timeout, 0 included, is
\* stored as the entry's expiration.
C9_EverySuppliedTimeoutExpires ==
  (last.op = "set_key" /\ self[last.i].redis # <<>> /\ last.timeout # <<>>)
    => server[self[last.i].redis[1]][last.key] =
         [val |-> last.val, ttl |-> last.timeout]

\* C9 amended: with a redis client, set_key stores the value with expiration
\* t when a non-zero timeout t is supplied, and without expiration when the
\* timeout is omitted, None or 0; without a client the value is stored in the
\* local cache as it is, whatever the timeout.
C9_NonZeroTimeoutExpires ==
  last.op = "set_key" =>
    IF self[last.i].redis = <<>>
    THEN dict_get(self[last.i].cache, last.key) = last.val
    ELSE server[self[last.i].redis[1]][last.key] =
           [val |-> last.val,
            ttl |-> IF last.timeout # <<>> /\ last.timeout[1] # 0
                    THEN last.timeout ELSE <<>>]

\* C9 witness: set_key(k, v, timeout=0) with a redis client stored v without
\* expiration.
C9_Witness ==
  /\ last.op = "set_key"
  /\ self[last.i].redis # <<>>
  /\ last.timeout = <<0>>
  /\ server[self[last.i].redis[1]][last.key].ttl = <<>>

\* C10: setup sees the constructor's options, and after construction the
\* settings are the constructor's options overridden by those setup
\* registered.
C10_SetupOverridesOptions ==
  last.op = "__init__" =>
    LET st == self[last.i].settings
        kw == last.kwargs
        so == last.setup_opts
    IN /\ last.setup_saw = kw
       /\ DOMAIN st = DOMAIN kw \cup DOMAIN so
       /\ \A o \in DOMAIN so : st[o] = so[o]
       /\ \A o \in DOMAIN kw \ DOMAIN so : st[o] = kw[o]

\* C10 witness: the caller and setup gave different values for the same
\* option.
C10_Witness ==
  /\ last.op = "__init__"
  /\ "opt" \in DOMAIN last.kwargs \cap DOMAIN last.setup_opts
  /\ last.kwargs["opt"] # last.setup_opts["opt"]
  /\ self[last.i].settings["opt"] = last.setup_opts["opt"]

====
